---- MODULE Spec2Model ----
(***************************************************************************)
(* A model of the recursive-descent parser of src/parser.go.               *)
(*                                                                         *)
(* The lexer is the cursor <<input, pos>> over a finite token sequence.    *)
(* text/scanner is configured with ScanIdents, ScanInts, ScanFloats and    *)
(* ScanComments only (parser.go:86): a comment is one token of kind        *)
(* Comment, and a string literal arrives as the tokens  "  ...  "  because *)
(* ScanStrings is not set.                                                 *)
(*                                                                         *)
(* Every production is a frame on `stack`; one action is one basic block   *)
(* of a production: the prologue up to the call of a sub-production, the   *)
(* continuation after the sub-production returned, or one iteration of a   *)
(* token-consuming loop.  A function returns by popping its frame and      *)
(* writing its (value, error) pair to `ret`.                               *)
(***************************************************************************)
EXTENDS Integers, Sequences, FiniteSets, TLC

(***************************************************************************)
(* Bounds                                                                  *)
(***************************************************************************)
\* longest token sequence of the exhaustive input family
MaxLen == 4
\* number of calls of Parse in one behaviour
MaxCalls == 2

(***************************************************************************)
(* Values                                                                  *)
(***************************************************************************)
\* a nil pointer
Nil == [nil |-> TRUE]
\* a nil error; an error is <<format, text>> of fmt.Errorf
NoErr == <<>>
Errorf(msg, t) == <<msg, t>>

CommentTexts == {"//a", "//b"}

(***************************************************************************)
(* lexer                                                                   *)
(***************************************************************************)
\* lex.token: the kind of the token under the cursor
token(in, p) ==
    IF p > Len(in) THEN "EOF"
    ELSE IF in[p] \in CommentTexts THEN "Comment"
    ELSE "Other"

\* lex.text(): TokenText is "" at end of input
text(in, p) == IF p <= Len(in) THEN in[p] ELSE ""

\* lex.next(): Scan keeps returning EOF once the input is exhausted
next(in, p) == IF p <= Len(in) THEN p + 1 ELSE p

(***************************************************************************)
(* parseComments, parseType, parsePackage: loop-free or bounded helpers,   *)
(* as functions of the cursor that return the value and the new cursor     *)
(***************************************************************************)
\* parseComments with `if` in place of `for`: takes at most one comment
parseCommentsFirstOnly(in, p) ==
    IF token(in, p) = "Comment"
    THEN [s |-> <<text(in, p)>>, pos |-> next(in, p)]
    ELSE [s |-> <<>>, pos |-> p]

RECURSIVE parseComments(_, _)
parseComments(in, p) ==
    IF token(in, p) = "Comment"
    THEN LET r == parseComments(in, next(in, p))
         IN  [s |-> <<text(in, p)>> \o r.s, pos |-> r.pos]
    ELSE [s |-> <<>>, pos |-> p]

\* the loop of parseType that glues  . ident  segments to the name
RECURSIVE parseTypeDots(_, _, _)
parseTypeDots(in, p, s) ==
    IF text(in, p) = "."
    THEN LET p1 == next(in, p)
         IN  parseTypeDots(in, next(in, p1), s \o text(in, p) \o text(in, p1))
    ELSE [t |-> [Name |-> s, IsRepeated |-> FALSE], pos |-> p]

\* parseType without the loop over  . ident  and without the recursion on
\* "repeated": one token is the whole type
parseTypeOneToken(in, p) ==
    LET s  == text(in, p)
        p1 == next(in, p)
    IN  IF s = "repeated"
        THEN [t |-> [Name |-> text(in, p1), IsRepeated |-> TRUE], pos |-> next(in, p1)]
        ELSE [t |-> [Name |-> s, IsRepeated |-> FALSE], pos |-> p1]

RECURSIVE parseType(_, _)
parseType(in, p) ==
    LET s  == text(in, p)
        p1 == next(in, p)
    IN  IF s = "repeated"
        THEN LET r == parseType(in, p1)
             IN  [t |-> [Name |-> r.t.Name, IsRepeated |-> TRUE], pos |-> r.pos]
        ELSE parseTypeDots(in, p1, s)

parsePackage(in, p) ==
    IF text(in, p) # "package"
    THEN [val |-> "", err |-> Errorf("[BUG] not found package", text(in, p)), pos |-> p]
    ELSE [val |-> text(in, next(in, p)), err |-> NoErr, pos |-> next(in, p)]

(***************************************************************************)
(* AST nodes                                                               *)
(***************************************************************************)
Field(c, t, n) == [Comments |-> c, Type |-> t, Name |-> n]
Oneof(c, n, fs) == [Comments |-> c, Name |-> n, Fields |-> fs]
EnumField(c, n) == [Comments |-> c, Name |-> n]
Enum(c, n, fs) == [Comments |-> c, Name |-> n, EnumFields |-> fs]
Message(c, n, fs, ns, es, os) ==
    [Comments |-> c, Name |-> n, Fields |-> fs, Nests |-> ns, Enums |-> es, Oneofs |-> os]
RPC(c, n, a, r) == [Comments |-> c, Name |-> n, Argument |-> a, Return |-> r]
Service(c, n, rs) == [Comments |-> c, Name |-> n, RPCs |-> rs]
ProtocolBuffer(p, s, ms) == [Package |-> p, Service |-> s, Messages |-> ms]

(***************************************************************************)
(* Inputs: token sequences as the scanner delivers them                    *)
(***************************************************************************)
Alphabet == {"message", "service", "rpc", "x", "{", "}", ";", "//a"}

\* every token sequence over Alphabet of length at most MaxLen
ShortInputs == UNION {[1..n -> Alphabet] : n \in 0..MaxLen}

\* message Outer { message Inner { int64 ival = 1; } }
NestedPlain ==
    <<"message", "Outer", "{", "message", "Inner", "{",
      "int64", "ival", "=", "1", ";", "}", "}">>
\* the same with a comment in front of every body element
NestedCommented ==
    <<"message", "Outer", "{", "//a", "message", "Inner", "{",
      "//b", "int64", "ival", "=", "1", ";", "}", "}">>
\* message M { map<int32, string> my_map = 4; }
MapPlain ==
    <<"message", "M", "{", "map", "<", "int32", ",", "string", ">",
      "my_map", "=", "4", ";", "}">>
MapCommented ==
    <<"message", "M", "{", "//a", "map", "<", "int32", ",", "string", ">",
      "my_map", "=", "4", ";", "}">>
\* message M { enum E { A = 0; } }  with the enum commented, its value not
EnumValuePlain ==
    <<"message", "M", "{", "//a", "enum", "E", "{", "A", "=", "0", ";", "}", "}">>
EnumCommented ==
    <<"message", "M", "{", "//a", "enum", "E", "{",
      "//b", "A", "=", "0", ";", "//a", "//b", "B", "=", "1", ";", "}", "}">>
OneofCommented ==
    <<"message", "M", "{", "//a", "oneof", "foo", "{",
      "//b", "string", "name", "=", "5", ";", "}", "}">>
\* service S { rpc Get(Req) returns (Res) {} }
ServicePlain ==
    <<"service", "S", "{", "rpc", "Get", "(", "Req", ")",
      "returns", "(", "Res", ")", "{", "}", "}">>
ServiceCommented ==
    <<"//a", "service", "S", "{", "//b", "rpc", "Get", "(", "Req", ")",
      "returns", "(", "Res", ")", "{", "}", "}">>
\* a file: comments in front of a skipped statement, of the package
\* statement and of a message; a repeated field of a dotted type
FileScript ==
    <<"//a", "syntax", "=", "\"", "proto3", "\"", ";", "//b", "package", "foo", ";",
      "//a", "//b", "message", "M", "{", "//a", "repeated", "a", ".", "b", "v", "=", "1", ";", "}",
      "message", "N", "{", "}">>
\* import "service.proto"; message M { }
ImportService ==
    <<"import", "\"", "service", ".", "proto", "\"", ";", "message", "M", "{", "}">>
\* a top-level enum in front of a message
TopLevelEnum ==
    <<"//a", "enum", "E", "{", "A", "=", "0", ";", "}", "//b", "message", "M", "{", "}">>
\* message M  //a //b int32 x = 1; }   the '{' is missing
BraceMissing ==
    <<"message", "M", "//a", "//b", "int32", "x", "=", "1", ";", "}">>
\* message M { int32 x = 1 } message N { int32 y = 2; }   the first ';' is missing
SemicolonMissing ==
    <<"message", "M", "{", "//a", "int32", "x", "=", "1", "}",
      "message", "N", "{", "//b", "int32", "y", "=", "2", ";", "}">>
\* bytes binary = 2 [(validator.field) = {length_gt: 0}];  of comment_test.go
FieldOptions ==
    <<"message", "M", "{", "//a", "bytes", "binary", "=", "2", "[", "(", "validator", ".",
      "field", ")", "=", "{", "length_gt", ":", "0", "}", "]", ";", "}">>

Scripts ==
    {NestedPlain, NestedCommented, MapPlain, MapCommented, EnumValuePlain,
     EnumCommented, OneofCommented, ServicePlain, ServiceCommented, FileScript,
     ImportService, TopLevelEnum, BraceMissing, SemicolonMissing, FieldOptions}

\* the script and every truncation of it
Prefixes(s) == {SubSeq(s, 1, n) : n \in 0..Len(s)}

\* top-level declarations with an empty body
Declarations ==
    {<<"service", "S", "{", "}">>, <<"service", "T", "{", "}">>,
     <<"message", "M", "{", "}">>, <<"message", "N", "{", "}">>}

\* the files that hold one, two or three of these declarations
DeclarationFiles ==
    Declarations
        \cup {d1 \o d2 : d1, d2 \in Declarations}
        \cup {d1 \o d2 \o d3 : d1, d2, d3 \in Declarations}

\* the two ways an rpc declaration ends: ';' or an empty body
Terminators == {<<";">>, <<"{", "}">>}

\* //c rpc n(Req) returns (Res) followed by terminator t
Rpc(c, n, t) ==
    <<c, "rpc", n, "(", "Req", ")", "returns", "(", "Res", ")">> \o t

\* service S { //a rpc Get(Req) returns (Res) t1  //b rpc Put(Req) returns (Res) t2 }
RpcFile(t1, t2) ==
    <<"service", "S", "{">> \o Rpc("//a", "Get", t1) \o Rpc("//b", "Put", t2) \o <<"}">>

RpcFiles == {RpcFile(t1, t2) : t1, t2 \in Terminators}

\* the type descriptors of a field: bare, repeated, dotted, repeated dotted
FieldTypes ==
    {<<"int32">>, <<"repeated", "inner">>, <<"a", ".", "b", ".", "c">>,
     <<"repeated", "a", ".", "b", ".", "c">>}

\* message M { //a ty f = 1; }
FieldFile(ty) == <<"message", "M", "{", "//a">> \o ty \o <<"f", "=", "1", ";", "}">>

FieldFiles == {FieldFile(ty) : ty \in FieldTypes}

\* body elements of different kinds, each with its leading comment
BodyElements ==
    {<<"//a", "int32", "x", "=", "1", ";">>,
     <<"//b", "string", "y", "=", "2", ";">>,
     <<"//a", "message", "I", "{", "}">>,
     <<"//a", "enum", "E", "{", "}">>,
     <<"//a", "oneof", "o", "{", "}">>}

\* message M { e1 e2 }
Body(e1, e2) == <<"message", "M", "{">> \o e1 \o e2 \o <<"}">>

BodyScripts == {Body(e1, e2) : e1, e2 \in BodyElements}

\* the bodies that hold the elements of `in` in another order
Reorderings(in) ==
    {Body(e2, e1) : <<e1, e2>> \in
        {p \in BodyElements \X BodyElements : p[1] # p[2] /\ Body(p[1], p[2]) = in}}

Inputs ==
    ShortInputs \cup UNION {Prefixes(s) : s \in Scripts} \cup BodyScripts
        \cup DeclarationFiles \cup RpcFiles \cup UNION {Prefixes(f) : f \in FieldFiles}

(***************************************************************************)
(* State                                                                   *)
(***************************************************************************)
VARIABLES
    input,      \* the token sequence behind the lexer
    pos,        \* the lexer's cursor: index of the current token, Len+1 at EOF
    stack,      \* the frames of the running productions, innermost first
    ret,        \* (value, error) of the function that returned last
    entry,      \* the function the caller entered, "" before the first call
    calls,      \* number of calls made so far
    prev,       \* input and outcome of the previous call, Nil if none
    collected,  \* the last call of parseComments: cursor before, after, result
    attached,   \* the comment lists attached to nodes, with the node's first token
    consumed    \* the token span of the last parseMessage that succeeded

vars == <<input, pos, stack, ret, entry, calls, prev, collected, attached, consumed>>

NoRet == [val |-> Nil, err |-> NoErr]
Top == stack[1]
Rest == Tail(stack)
Running(fn, pc) == stack # <<>> /\ Top.fn = fn /\ Top.pc = pc
Done == entry # "" /\ stack = <<>>

\* `return v, e` with the cursor at p
Return(p, v, e) ==
    /\ pos' = p
    /\ stack' = Rest
    /\ ret' = [val |-> v, err |-> e]
    /\ UNCHANGED <<input, entry, calls, prev>>

\* continue in the same function as frame f with the cursor at p
Goto(p, f) ==
    /\ pos' = p
    /\ stack' = <<f>> \o Rest
    /\ ret' = NoRet
    /\ UNCHANGED <<input, entry, calls, prev>>

\* call the production of frame g from frame f with the cursor at p
Call(p, f, g) ==
    /\ pos' = p
    /\ stack' = <<g, f>> \o Rest
    /\ ret' = NoRet
    /\ UNCHANGED <<input, entry, calls, prev>>

Collect(from, c) == collected' = [from |-> from, to |-> c.pos, s |-> c.s]
Attach(at, node) == attached' = attached \cup {[at |-> at, Comments |-> node.Comments]}

(***************************************************************************)
(* Frames                                                                  *)
(***************************************************************************)
parseFrame ==
    [fn |-> "parse", pc |-> "loop", pkg |-> "", service |-> Service(<<>>, "", <<>>),
     messages |-> <<>>, comments |-> <<>>, at |-> 0]
parseServiceFrame == [fn |-> "parseService", pc |-> "start", name |-> ""]
parseServiceContentFrame ==
    [fn |-> "parseServiceContent", pc |-> "loop", rpcs |-> <<>>, comments |-> <<>>, at |-> 0]
parseRPCFrame == [fn |-> "parseRPC", pc |-> "loop", rpc |-> RPC(<<>>, "", Nil, Nil)]
parseMessageFrame(p) == [fn |-> "parseMessage", pc |-> "start", name |-> "", from |-> p]
parseMessageContentFrame ==
    [fn |-> "parseMessageContent", pc |-> "loop", fields |-> <<>>, messages |-> <<>>,
     enums |-> <<>>, oneofs |-> <<>>, comments |-> <<>>, at |-> 0]
parseEnumFrame == [fn |-> "parseEnum", pc |-> "start", name |-> ""]
parseEnumContentFrame == [fn |-> "parseEnumContent", pc |-> "loop", fields |-> <<>>]
parseEnumFieldFrame == [fn |-> "parseEnumField", pc |-> "start", field |-> EnumField(<<>>, "")]
parseOneofFrame == [fn |-> "parseOneof", pc |-> "start", name |-> ""]
parseFieldFrame == [fn |-> "parseField", pc |-> "loop", field |-> Field(<<>>, Nil, "")]

Init ==
    /\ input = <<>>
    /\ pos = 1
    /\ stack = <<>>
    /\ ret = NoRet
    /\ entry = ""
    /\ calls = 0
    /\ prev = Nil
    /\ collected = Nil
    /\ attached = {}
    /\ consumed = Nil

(***************************************************************************)
(* Entry points                                                            *)
(***************************************************************************)
\* a call: the lexer is set up on `in` and its first token is scanned
Enter(in, fn, frames) ==
    /\ input' = in
    /\ pos' = 1
    /\ stack' = frames
    /\ ret' = NoRet
    /\ entry' = fn
    /\ calls' = calls + 1
    /\ prev' = IF calls = 0 THEN Nil ELSE [input |-> input, ret |-> ret]
    /\ collected' = Nil
    /\ attached' = {}
    /\ consumed' = Nil

\* the inputs of a first call, none once a call was made
FirstInputs == IF calls = 0 THEN Inputs ELSE {}

\* the inputs of a call of Parse: any input first, and after a finished call
\* the same body elements in another order
ParseInputs ==
    IF calls = 0 THEN Inputs
    ELSE IF calls < MaxCalls /\ Done /\ entry = "Parse" THEN Reorderings(input)
    ELSE {}

\* Parse(input)
Parse(in) ==
    /\ calls < MaxCalls
    /\ stack = <<>>
    /\ Enter(in, "Parse", <<parseFrame>>)

\* parseMessage called on a fresh lexer, as the message tests do
CallParseMessage(in) ==
    /\ calls = 0
    /\ Enter(in, "parseMessage", <<parseMessageFrame(1)>>)

\* parseComments called on a fresh lexer, as TestParseComments does
CallParseComments(in) ==
    /\ calls = 0
    /\ LET c == parseComments(in, 1)
       IN  /\ input' = in
           /\ pos' = c.pos
           /\ stack' = <<>>
           /\ ret' = [val |-> c.s, err |-> NoErr]
           /\ entry' = "parseComments"
           /\ calls' = calls + 1
           /\ collected' = [from |-> 1, to |-> c.pos, s |-> c.s]
           /\ UNCHANGED <<prev, attached, consumed>>

(***************************************************************************)
(* parse                                                                   *)
(***************************************************************************)
\* one iteration of the file loop up to the call of a production
parse_loop ==
    /\ Running("parse", "loop")
    /\ IF token(input, pos) = "EOF"
       THEN /\ Return(pos, ProtocolBuffer(Top.pkg, Top.service, Top.messages), NoErr)
            /\ UNCHANGED collected
       ELSE LET c == parseComments(input, pos)
                t == text(input, c.pos)
                f == [Top EXCEPT !.comments = c.s, !.at = c.pos]
            IN  /\ Collect(pos, c)
                /\ CASE t = "package" ->
                          LET p == parsePackage(input, c.pos)
                          IN  IF p.err # NoErr
                              THEN Return(p.pos, Nil, p.err)
                              ELSE Goto(p.pos, [Top EXCEPT !.pkg = p.val])
                     [] t = "service" ->
                          Call(c.pos, [f EXCEPT !.pc = "service"], parseServiceFrame)
                     [] t = "message" ->
                          Call(c.pos, [f EXCEPT !.pc = "message"], parseMessageFrame(c.pos))
                     [] OTHER ->
                          Goto(next(input, c.pos), Top)
    /\ UNCHANGED <<attached, consumed>>

\* case "service", after parseService returned
parse_service ==
    /\ Running("parse", "service")
    /\ IF ret.err # NoErr
       THEN /\ Return(pos, Nil, ret.err)
            /\ UNCHANGED attached
       ELSE LET s == [ret.val EXCEPT !.Comments = @ \o Top.comments]
            IN  /\ Goto(pos, [Top EXCEPT !.pc = "loop", !.service = s,
                                         !.comments = <<>>, !.at = 0])
                /\ Attach(Top.at, s)
    /\ UNCHANGED <<collected, consumed>>

\* parse_message that drops the error and goes on with the next statement
parse_message_recover ==
    /\ Running("parse", "message")
    /\ IF ret.err # NoErr
       THEN /\ Goto(pos, [Top EXCEPT !.pc = "loop", !.comments = <<>>, !.at = 0])
            /\ UNCHANGED attached
       ELSE LET m == [ret.val EXCEPT !.Comments = @ \o Top.comments]
            IN  /\ Goto(pos, [Top EXCEPT !.pc = "loop", !.messages = Append(@, m),
                                         !.comments = <<>>, !.at = 0])
                /\ Attach(Top.at, m)
    /\ UNCHANGED <<collected, consumed>>

\* case "message", after parseMessage returned
parse_message ==
    /\ Running("parse", "message")
    /\ IF ret.err # NoErr
       THEN /\ Return(pos, Nil, ret.err)
            /\ UNCHANGED attached
       ELSE LET m == [ret.val EXCEPT !.Comments = @ \o Top.comments]
            IN  /\ Goto(pos, [Top EXCEPT !.pc = "loop", !.messages = Append(@, m),
                                         !.comments = <<>>, !.at = 0])
                /\ Attach(Top.at, m)
    /\ UNCHANGED <<collected, consumed>>

(***************************************************************************)
(* parseService, parseServiceContent, parseRPC                             *)
(***************************************************************************)
\* "service" name '{', then the call of parseServiceContent
parseService ==
    /\ Running("parseService", "start")
    /\ IF text(input, pos) # "service"
       THEN Return(pos, Nil, Errorf("[BUG] not found service", text(input, pos)))
       ELSE LET p1 == next(input, pos)
                p3 == next(input, next(input, p1))
            IN  Call(p3, [Top EXCEPT !.pc = "content", !.name = text(input, p1)],
                     parseServiceContentFrame)
    /\ UNCHANGED <<collected, attached, consumed>>

\* after parseServiceContent returned: '}' and the node
parseService_content ==
    /\ Running("parseService", "content")
    /\ IF ret.err # NoErr
       THEN Return(pos, Nil, ret.err)
       ELSE Return(next(input, pos), Service(<<>>, Top.name, ret.val), NoErr)
    /\ UNCHANGED <<collected, attached, consumed>>

\* one iteration of the service body loop up to the call of parseRPC
parseServiceContent ==
    /\ Running("parseServiceContent", "loop")
    /\ IF text(input, pos) = "}"
       THEN /\ Return(pos, Top.rpcs, NoErr)
            /\ UNCHANGED collected
       ELSE IF token(input, pos) # "Comment"
       THEN /\ Return(pos, Nil, Errorf("not found comment", text(input, pos)))
            /\ UNCHANGED collected
       ELSE LET c == parseComments(input, pos)
            IN  /\ Collect(pos, c)
                /\ IF text(input, c.pos) = "rpc"
                   THEN Call(next(input, c.pos),
                             [Top EXCEPT !.pc = "rpc", !.comments = c.s, !.at = c.pos],
                             parseRPCFrame)
                   ELSE Return(c.pos, Nil, Errorf("not found rpc", text(input, c.pos)))
    /\ UNCHANGED <<attached, consumed>>

\* case "rpc", after parseRPC returned
parseServiceContent_rpc ==
    /\ Running("parseServiceContent", "rpc")
    /\ IF ret.err # NoErr
       THEN /\ Return(pos, Nil, ret.err)
            /\ UNCHANGED attached
       ELSE LET rpc == [ret.val EXCEPT !.Comments = @ \o Top.comments]
            IN  /\ Goto(pos, [Top EXCEPT !.pc = "loop", !.rpcs = Append(@, rpc),
                                         !.comments = <<>>, !.at = 0])
                /\ Attach(Top.at, rpc)
    /\ UNCHANGED <<collected, consumed>>

\* one iteration of the loop of parseRPC, or its exit on '}'
parseRPC ==
    /\ Running("parseRPC", "loop")
    /\ LET rpc == Top.rpc
           tok == text(input, pos)
       IN  IF tok = "}"
           THEN Return(next(input, pos), rpc, NoErr)
           ELSE IF rpc.Name = ""
           THEN Goto(next(input, pos), [Top EXCEPT !.rpc.Name = tok])
           ELSE IF rpc.Argument = Nil
           THEN LET r == parseType(input, next(input, pos))
                IN  Goto(next(input, r.pos), [Top EXCEPT !.rpc.Argument = r.t])
           ELSE IF rpc.Return = Nil
           THEN LET r == parseType(input, next(input, next(input, pos)))
                IN  Goto(next(input, next(input, r.pos)), [Top EXCEPT !.rpc.Return = r.t])
           ELSE Goto(next(input, pos), Top)
    /\ UNCHANGED <<collected, attached, consumed>>

(***************************************************************************)
(* parseMessage, parseMessageContent                                       *)
(***************************************************************************)
\* "message" name '{', then the call of parseMessageContent
parseMessage ==
    /\ Running("parseMessage", "start")
    /\ IF text(input, pos) # "message"
       THEN Return(pos, Nil, Errorf("not found message", text(input, pos)))
       ELSE LET p1 == next(input, pos)
                p3 == next(input, next(input, p1))
            IN  Call(p3, [Top EXCEPT !.pc = "content", !.name = text(input, p1)],
                     parseMessageContentFrame)
    /\ UNCHANGED <<collected, attached, consumed>>

\* after parseMessageContent returned: '}' and the node
parseMessage_content ==
    /\ Running("parseMessage", "content")
    /\ IF ret.err # NoErr
       THEN /\ Return(pos, Nil, ret.err)
            /\ UNCHANGED consumed
       ELSE /\ Return(next(input, pos),
                      Message(<<>>, Top.name, ret.val.fields, ret.val.messages,
                              ret.val.enums, ret.val.oneofs),
                      NoErr)
            /\ consumed' = [from |-> Top.from, to |-> next(input, pos)]
    /\ UNCHANGED <<collected, attached>>

\* one iteration of the body loop up to the call of the element's production
parseMessageContent ==
    /\ Running("parseMessageContent", "loop")
    /\ IF text(input, pos) = "}"
       THEN /\ Return(pos, [fields |-> Top.fields, messages |-> Top.messages,
                            enums |-> Top.enums, oneofs |-> Top.oneofs], NoErr)
            /\ UNCHANGED collected
       ELSE IF token(input, pos) # "Comment"
       THEN /\ Return(pos, Nil, Errorf("not found comment", text(input, pos)))
            /\ UNCHANGED collected
       ELSE LET c == parseComments(input, pos)
                t == text(input, c.pos)
                f == [Top EXCEPT !.comments = c.s, !.at = c.pos]
            IN  /\ Collect(pos, c)
                /\ CASE t = "message" ->
                          Call(c.pos, [f EXCEPT !.pc = "message"], parseMessageFrame(c.pos))
                     [] t = "enum" ->
                          Call(c.pos, [f EXCEPT !.pc = "enum"], parseEnumFrame)
                     [] t = "oneof" ->
                          Call(c.pos, [f EXCEPT !.pc = "oneof"], parseOneofFrame)
                     [] OTHER ->
                          Call(c.pos, [f EXCEPT !.pc = "field"], parseFieldFrame)
    /\ UNCHANGED <<attached, consumed>>

\* the element just parsed, with the collected comments appended to its own
Element == [ret.val EXCEPT !.Comments = @ \o Top.comments]
\* back to the head of the body loop
Looped(f) == [f EXCEPT !.pc = "loop", !.comments = <<>>, !.at = 0]

\* case "message", after parseMessage returned
parseMessageContent_message ==
    /\ Running("parseMessageContent", "message")
    /\ IF ret.err # NoErr
       THEN /\ Return(pos, Nil, ret.err)
            /\ UNCHANGED attached
       ELSE /\ Goto(pos, Looped([Top EXCEPT !.messages = Append(@, Element)]))
            /\ Attach(Top.at, Element)
    /\ UNCHANGED <<collected, consumed>>

\* case "enum", after parseEnum returned
parseMessageContent_enum ==
    /\ Running("parseMessageContent", "enum")
    /\ IF ret.err # NoErr
       THEN /\ Return(pos, Nil, ret.err)
            /\ UNCHANGED attached
       ELSE /\ Goto(pos, Looped([Top EXCEPT !.enums = Append(@, Element)]))
            /\ Attach(Top.at, Element)
    /\ UNCHANGED <<collected, consumed>>

\* case "oneof", after parseOneof returned
parseMessageContent_oneof ==
    /\ Running("parseMessageContent", "oneof")
    /\ IF ret.err # NoErr
       THEN /\ Return(pos, Nil, ret.err)
            /\ UNCHANGED attached
       ELSE /\ Goto(pos, Looped([Top EXCEPT !.oneofs = Append(@, Element)]))
            /\ Attach(Top.at, Element)
    /\ UNCHANGED <<collected, consumed>>

\* default case, after parseField returned
parseMessageContent_field ==
    /\ Running("parseMessageContent", "field")
    /\ IF ret.err # NoErr
       THEN /\ Return(pos, Nil, ret.err)
            /\ UNCHANGED attached
       ELSE /\ Goto(pos, Looped([Top EXCEPT !.fields = Append(@, Element)]))
            /\ Attach(Top.at, Element)
    /\ UNCHANGED <<collected, consumed>>

(***************************************************************************)
(* parseEnum, parseEnumContent, parseEnumField                             *)
(***************************************************************************)
\* "enum" name '{', then the call of parseEnumContent
parseEnum ==
    /\ Running("parseEnum", "start")
    /\ IF text(input, pos) # "enum"
       THEN Return(pos, Nil, Errorf("not found enum", text(input, pos)))
       ELSE LET p1 == next(input, pos)
                p3 == next(input, next(input, p1))
            IN  Call(p3, [Top EXCEPT !.pc = "content", !.name = text(input, p1)],
                     parseEnumContentFrame)
    /\ UNCHANGED <<collected, attached, consumed>>

\* after parseEnumContent returned: '}' and the node
parseEnum_content ==
    /\ Running("parseEnum", "content")
    /\ IF ret.err # NoErr
       THEN Return(pos, Nil, ret.err)
       ELSE Return(next(input, pos), Enum(<<>>, Top.name, ret.val), NoErr)
    /\ UNCHANGED <<collected, attached, consumed>>

\* the head of the enum body loop: exit on '}' or call parseEnumField
parseEnumContent ==
    /\ Running("parseEnumContent", "loop")
    /\ IF text(input, pos) = "}"
       THEN Return(pos, Top.fields, NoErr)
       ELSE Call(pos, [Top EXCEPT !.pc = "field"], parseEnumFieldFrame)
    /\ UNCHANGED <<collected, attached, consumed>>

\* after parseEnumField returned
parseEnumContent_field ==
    /\ Running("parseEnumContent", "field")
    /\ IF ret.err # NoErr
       THEN Return(pos, Nil, ret.err)
       ELSE Goto(pos, [Top EXCEPT !.pc = "loop", !.fields = Append(@, ret.val)])
    /\ UNCHANGED <<collected, attached, consumed>>

\* the comments and the name of an enum value
parseEnumField ==
    /\ Running("parseEnumField", "start")
    /\ IF token(input, pos) # "Comment"
       THEN /\ Return(pos, Nil, Errorf("not found comment", text(input, pos)))
            /\ UNCHANGED <<collected, attached>>
       ELSE LET c == parseComments(input, pos)
                field == EnumField(c.s, text(input, c.pos))
            IN  /\ Goto(c.pos, [Top EXCEPT !.pc = "rest", !.field = field])
                /\ Collect(pos, c)
                /\ Attach(c.pos, field)
    /\ UNCHANGED consumed

\* one iteration of the loop that consumes the rest up to ';', or its exit
parseEnumField_rest ==
    /\ Running("parseEnumField", "rest")
    /\ IF text(input, pos) # ";"
       THEN Goto(next(input, pos), Top)
       ELSE Return(next(input, pos), Top.field, NoErr)
    /\ UNCHANGED <<collected, attached, consumed>>

(***************************************************************************)
(* parseOneof, parseField                                                  *)
(***************************************************************************)
\* "oneof" name '{', then the call of parseMessageContent
parseOneof ==
    /\ Running("parseOneof", "start")
    /\ IF text(input, pos) # "oneof"
       THEN Return(pos, Nil, Errorf("not found oneof", text(input, pos)))
       ELSE LET p1 == next(input, pos)
                p3 == next(input, next(input, p1))
            IN  Call(p3, [Top EXCEPT !.pc = "content", !.name = text(input, p1)],
                     parseMessageContentFrame)
    /\ UNCHANGED <<collected, attached, consumed>>

\* after parseMessageContent returned: '}' and the node, fields only
parseOneof_content ==
    /\ Running("parseOneof", "content")
    /\ IF ret.err # NoErr
       THEN Return(pos, Nil, ret.err)
       ELSE Return(next(input, pos), Oneof(<<>>, Top.name, ret.val.fields), NoErr)
    /\ UNCHANGED <<collected, attached, consumed>>

\* one iteration of the loop of parseField, or its exit on ';'
parseField ==
    /\ Running("parseField", "loop")
    /\ LET field == Top.field
           tok   == text(input, pos)
       IN  IF tok # ";"
           THEN IF field.Type = Nil
                THEN LET r == parseType(input, pos)
                     IN  Goto(r.pos, [Top EXCEPT !.field.Type = r.t])
                ELSE IF field.Name = ""
                THEN Goto(next(input, pos), [Top EXCEPT !.field.Name = tok])
                ELSE Goto(next(input, pos), Top)
           ELSE Return(next(input, pos), field, NoErr)
    /\ UNCHANGED <<collected, attached, consumed>>

(***************************************************************************)
(* Specification                                                           *)
(***************************************************************************)
Next ==
    \/ \E in \in ParseInputs : Parse(in)
    \/ \E in \in FirstInputs : CallParseMessage(in)
    \/ \E in \in FirstInputs : CallParseComments(in)
    \/ parse_loop
    \/ parse_service
    \/ parse_message
    \/ parseService
    \/ parseService_content
    \/ parseServiceContent
    \/ parseServiceContent_rpc
    \/ parseRPC
    \/ parseMessage
    \/ parseMessage_content
    \/ parseMessageContent
    \/ parseMessageContent_message
    \/ parseMessageContent_enum
    \/ parseMessageContent_oneof
    \/ parseMessageContent_field
    \/ parseEnum
    \/ parseEnum_content
    \/ parseEnumContent
    \/ parseEnumContent_field
    \/ parseEnumField
    \/ parseEnumField_rest
    \/ parseOneof
    \/ parseOneof_content
    \/ parseField

Spec == Init /\ [][Next]_vars

(***************************************************************************)
(* Vocabulary of the properties                                            *)
(***************************************************************************)
Failed == ret.err # NoErr
Succeeded == Done /\ ret.err = NoErr

\* first index of the run of consecutive comment tokens that ends right before `at`
RunStart(in, at) ==
    CHOOSE k \in 1..at :
        /\ \A i \in k..(at - 1) : token(in, i) = "Comment"
        /\ k = 1 \/ token(in, k - 1) # "Comment"

\* the maximal run of comment tokens that immediately precedes token `at`
LeadingComments(in, at) == SubSeq(in, RunStart(in, at), at - 1)

\* '{' minus '}' among in[a..b]
Depth(in, a, b) ==
    Cardinality({i \in a..b : in[i] = "{"}) - Cardinality({i \in a..b : in[i] = "}"})

\* j is the '}' that closes the '{' at index o
Closes(in, o, j) ==
    /\ j \in (o + 1)..Len(in)
    /\ in[j] = "}"
    /\ Depth(in, o, j) = 0
    /\ \A k \in o..(j - 1) : Depth(in, o, k) > 0

(***************************************************************************)
(* C1  Termination                                                         *)
(***************************************************************************)
\* C1: every call terminates: as long as the entered function has not returned,
\* the running production has a step that changes the state (it advances the
\* cursor, fills a slot, calls or returns), so no input makes it loop on one
\* spot; in particular not an input that ends inside a field, an enum value
\* or an rpc.
C1_Terminates == entry # "" => (Done \/ ENABLED <<Next>>_vars)

(***************************************************************************)
(* C2  A missing keyword or punctuation token is an error                  *)
(***************************************************************************)
\* the input opens a block as the grammar demands: keyword name '{'
Opens(in, keyword) == Len(in) >= 3 /\ in[1] = keyword /\ in[3] = "{"

\* C2: parseMessage entered on an input that does not start with "message",
\* or whose token after the name is not '{' (or is missing), returns an error
\* and no node; so does Parse on a file that starts with "message" or
\* "service" and has no '{' after the name.
C2_UnexpectedTokenIsError ==
    /\ (Done /\ entry = "parseMessage" /\ ~Opens(input, "message"))
           => (Failed /\ ret.val = Nil)
    /\ (Done /\ entry = "Parse" /\ input # <<>> /\ input[1] \in {"message", "service"}
             /\ ~Opens(input, input[1]))
           => (Failed /\ ret.val = Nil)

(***************************************************************************)
(* C3  Leading comments are optional                                       *)
(***************************************************************************)
\* well-formed inputs whose message elements, enum values and rpcs carry no comment
Uncommented == {NestedPlain, EnumValuePlain, ServicePlain}

\* C3: an input whose body elements have no leading comment parses without
\* error, and every node that no comment token immediately precedes has an
\* empty Comments list.
C3_CommentsOptional ==
    (Done /\ entry = "Parse" /\ input \in Uncommented)
        => /\ ret.err = NoErr
           /\ \A a \in attached :
                  (a.at = 1 \/ token(input, a.at - 1) # "Comment") => a.Comments = <<>>

(***************************************************************************)
(* C4  The body keeps the declaration order                                *)
(***************************************************************************)
\* C4: two message bodies that hold the same elements in a different order
\* yield different results.
C4_BodyOrderPreserved ==
    (Done /\ entry = "Parse" /\ prev # Nil /\ ret.err = NoErr /\ prev.ret.err = NoErr
          /\ input \in Reorderings(prev.input))
        => ret.val # prev.ret.val

(***************************************************************************)
(* C5  Comments attach to the immediately following construct only         *)
(***************************************************************************)
\* C5: after a successful parse, the Comments of every node are exactly the
\* maximal run of consecutive comment tokens that immediately precedes the
\* node's first token, in source order.
C5_CommentsAreLeadingRun ==
    (Succeeded /\ entry \in {"Parse", "parseMessage"})
        => \A a \in attached : a.Comments = LeadingComments(input, a.at)

(***************************************************************************)
(* C6  parseComments                                                       *)
(***************************************************************************)
\* C6: every call of parseComments returns the texts of the maximal run of
\* consecutive comment tokens that starts at the cursor, in order, and leaves
\* the cursor on the first token that is no comment; on a token that is no
\* comment (end of input too) it returns nothing and leaves the cursor.
C6_ParseCommentsTakesRun ==
    collected # Nil =>
        /\ collected.to \in collected.from..(Len(input) + 1)
        /\ \A i \in collected.from..(collected.to - 1) : token(input, i) = "Comment"
        /\ token(input, collected.to) # "Comment"
        /\ collected.s = SubSeq(input, collected.from, collected.to - 1)
        /\ token(input, collected.from) # "Comment"
               => collected.to = collected.from /\ collected.s = <<>>
        /\ entry = "parseComments" => pos = collected.to /\ ret.val = collected.s

\* parseComments was called in the middle of the input on a run of two
\* comments that another token follows
C6_Witness ==
    /\ collected # Nil
    /\ collected.from > 1
    /\ Len(collected.s) = 2
    /\ collected.to <= Len(input)

(***************************************************************************)
(* C7  Map fields                                                          *)
(***************************************************************************)
\* C7: message M { map<int32, string> my_map = 4; } yields a Message named M
\* with exactly one element, whose name is my_map and which is no ordinary
\* field of type "map".
C7_MapField ==
    (Done /\ entry = "Parse" /\ input \in {MapPlain, MapCommented})
        => /\ ret.err = NoErr
           /\ Len(ret.val.Messages) = 1
           /\ LET m == ret.val.Messages[1]
              IN  /\ m.Name = "M"
                  /\ Len(m.Fields) = 1
                  /\ Len(m.Nests) + Len(m.Enums) + Len(m.Oneofs) = 0
                  /\ m.Fields[1].Name = "my_map"
                  /\ m.Fields[1].Type.Name # "map"

(***************************************************************************)
(* C8  The first error aborts the parse                                    *)
(***************************************************************************)
\* C8: an error comes with a nil value, and once a production has returned an
\* error every further step returns that same error with a nil value from the
\* next enclosing production without moving the cursor, until Parse itself
\* has returned it: nothing is parsed after the failure and nothing parsed
\* before it is returned.
C8_FirstErrorAborts ==
    /\ [](Failed => ret.val = Nil)
    /\ [][(Failed /\ stack # <<>>)
            => /\ stack' = Tail(stack)
               /\ ret' = [val |-> Nil, err |-> ret.err]
               /\ pos' = pos
               /\ input' = input]_vars

\* Parse returned an error raised inside the body of a message, after a
\* message of the same input had been parsed
C8_Witness ==
    /\ Done /\ entry = "Parse" /\ Failed
    /\ ret.err[1] = "not found comment"
    /\ consumed # Nil

(***************************************************************************)
(* C9  parseMessage consumes exactly one message                           *)
(***************************************************************************)
\* C9: when parseMessage succeeds on  "message" name '{' ...  the cursor
\* rests on the token right after the '}' that closes that '{': no token of
\* a following construct has been consumed.
C9_ConsumesOneMessage ==
    (/\ consumed # Nil
     /\ consumed.from + 2 <= Len(input)
     /\ input[consumed.from] = "message"
     /\ input[consumed.from + 2] = "{")
        => Closes(input, consumed.from + 2, consumed.to - 1)

(***************************************************************************)
(* C10  Unrecognized statements at file scope                              *)
(***************************************************************************)
Keywords == {"package", "service", "message"}

\* the input is one statement that ends in ';' and starts with none of the
\* keywords of parse
SkippedStatement(in) ==
    /\ Len(in) >= 1
    /\ in[1] \notin Keywords
    /\ token(in, 1) # "Comment"
    /\ in[Len(in)] = ";"
    /\ \A i \in 1..(Len(in) - 1) : in[i] # ";"

\* C10: a file-scope statement whose first token is not "package", "service"
\* or "message" never makes Parse return an error and adds no node to the
\* result, whatever tokens it contains.
C10_StatementSkipped ==
    (Done /\ entry = "Parse" /\ SkippedStatement(input))
        => /\ ret.err = NoErr
           /\ ret.val.Messages = <<>>
           /\ ret.val.Service = Service(<<>>, "", <<>>)

(***************************************************************************)
(* C11  Top-level declarations in the result                               *)
(***************************************************************************)
\* the names that follow keyword kw outside every brace pair, from index i on
RECURSIVE Declared(_, _, _)
Declared(in, kw, i) ==
    IF i > Len(in) THEN <<>>
    ELSE (IF in[i] = kw /\ Depth(in, 1, i) = 0 THEN <<text(in, i + 1)>> ELSE <<>>)
             \o Declared(in, kw, i + 1)

\* the Service nodes of a result: the zero Service stands for "no service"
Services(pb) == IF pb.Service = Service(<<>>, "", <<>>) THEN <<>> ELSE <<pb.Service>>

Names(nodes) == [i \in 1..Len(nodes) |-> nodes[i].Name]

\* C11: Parse of a file of k top-level messages and s top-level services
\* succeeds and its result holds exactly those k messages and those s
\* services, each once and in the order of declaration.
C11_DeclarationsKept ==
    (Done /\ entry = "Parse" /\ input \in DeclarationFiles)
        => /\ ret.err = NoErr
           /\ Names(ret.val.Messages) = Declared(input, "message", 1)
           /\ Names(Services(ret.val)) = Declared(input, "service", 1)

(***************************************************************************)
(* C12  rpc declarations                                                   *)
(***************************************************************************)
Req == [Name |-> "Req", IsRepeated |-> FALSE]
Res == [Name |-> "Res", IsRepeated |-> FALSE]

\* C12: a service of two rpc declarations, each ended by ';' or by '{ }',
\* parses without error to a service of two RPC nodes, Get and Put in this
\* order, each with its own comment, argument type Req and return type Res:
\* no rpc consumes tokens of the declaration that follows it or the closing
\* '}' of the service.
C12_RpcConsumesOwnTokens ==
    (Done /\ entry = "Parse" /\ input \in RpcFiles)
        => /\ ret.err = NoErr
           /\ ret.val.Service =
                  Service(<<>>, "S", <<RPC(<<"//a">>, "Get", Req, Res),
                                       RPC(<<"//b">>, "Put", Req, Res)>>)
           /\ pos = Len(input) + 1

(***************************************************************************)
(* C13  Type descriptors                                                   *)
(***************************************************************************)
\* first token at or after `from` that is not the modifier "repeated"
TypeStart(in, from) ==
    CHOOSE b \in from..(Len(in) + 1) :
        /\ \A i \in from..(b - 1) : in[i] = "repeated"
        /\ text(in, b) # "repeated"

\* number of  . ident  segments that follow the identifier at b
Segments(in, b) ==
    CHOOSE k \in 0..Len(in) :
        /\ \A j \in 0..(k - 1) : text(in, b + 1 + 2 * j) = "."
        /\ text(in, b + 1 + 2 * k) # "."

\* index of the first token after the type descriptor that starts at `from`
TypeEnd(in, from) ==
    LET b == TypeStart(in, from)
        e == b + 1 + 2 * Segments(in, b)
    IN  IF e > Len(in) THEN Len(in) + 1 ELSE e

\* the texts of in[a..b] written one after the other
RECURSIVE Joined(_, _, _)
Joined(in, a, b) == IF a > b THEN "" ELSE text(in, a) \o Joined(in, a + 1, b)

\* C13: once parseField has read the type of the field that starts at token
\* `from`, the type's Name is the underlying identifier with all its
\* . ident  segments written as one name, without the modifier, IsRepeated
\* tells whether the descriptor starts with "repeated", the cursor is on the
\* first token after the descriptor, and the name the field reads next is
\* that token.
C13_TypeDescriptor ==
    (Running("parseField", "loop") /\ Top.field.Type # Nil)
        => LET from == stack[2].at
               b    == TypeStart(input, from)
               e    == TypeEnd(input, from)
           IN  /\ Top.field.Type.Name = Joined(input, b, e - 1)
               /\ Top.field.Type.IsRepeated = (text(input, from) = "repeated")
               /\ (Top.field.Name = "" => pos = e)
               /\ (Top.field.Name # "" => (Top.field.Name = text(input, e) /\ pos > e))

\* a repeated field of a dotted type whose name has been read
C13_Witness ==
    /\ Running("parseField", "loop")
    /\ Top.field.Type = [Name |-> "a.b.c", IsRepeated |-> TRUE]
    /\ Top.field.Name = "f"
    /\ input = FieldFile(<<"repeated", "a", ".", "b", ".", "c">>)

====
